---- MODULE Spec2Model ----
(***************************************************************************)
(* Model of aws/resource_aws_codecommit_repository.go: the four handlers   *)
(* of the aws_codecommit_repository resource (Create, Update, Read,        *)
(* Delete) and the import passthrough.                                     *)
(*                                                                         *)
(* A handler is synchronous and single-threaded, so one invocation is one  *)
(* action.  The remote service is not under the handlers' control: every   *)
(* remote call is a nondeterministic choice among the responses the        *)
(* client can return.  Each handler is an operator from the ResourceData   *)
(* it is given to the SET of its possible returns, one per combination of  *)
(* responses to the calls it actually makes.  A return carries the         *)
(* ResourceData as left by the handler, the error flag, and the log of the *)
(* remote calls issued, each with its request, its response and the        *)
(* ResourceData at the moment it was issued.                               *)
(***************************************************************************)
EXTENDS Naturals, Sequences, FiniteSets, TLC

VARIABLES
    op,     \* the handler the host framework invoked last
    d0,     \* the ResourceData handed to that handler
    d,      \* the ResourceData as that handler left it
    calls,  \* the remote calls of that invocation, in order
    err     \* TRUE iff that handler returned a non-nil error

vars == <<op, d0, d, calls, err>>

(***************************************************************************)
(* Bounds of the model.                                                    *)
(***************************************************************************)
MaxDescriptions == 1 \* distinct non-empty descriptions
MaxBranchNames == 2  \* distinct branch names
MaxMetas == 1        \* distinct server-computed identities (id, arn, urls)

DescriptionTable == <<"descA", "descB", "descC">>
BranchTable == <<"main", "dev", "rel">>
RepositoryIdTable == <<"id-1", "id-2", "id-3">>
ArnTable == <<"arn-1", "arn-2", "arn-3">>
CloneUrlHttpTable == <<"https-1", "https-2", "https-3">>
CloneUrlSshTable == <<"ssh-1", "ssh-2", "ssh-3">>

\* One resource manages one repository; its name cannot change in place.
RepoNames == {"repoA"}
Descriptions == {DescriptionTable[i] : i \in 1..MaxDescriptions}
BranchNames == {BranchTable[i] : i \in 1..MaxBranchNames}
TagKeys == {"k1"}
MetaIds == 1..MaxMetas

\* A nil *string of an API response.
NIL == "<nil>"

\* The field of an entry of the call log that carries no data.
NoData == [none |-> TRUE]

(***************************************************************************)
(* Tags.  The schema holds a map (here: a set of <<key, value>> pairs with *)
(* distinct keys); the API carries a list of Tag structures.               *)
(***************************************************************************)
TagMaps == {{<<k, "v1">> : k \in K} : K \in SUBSET TagKeys}

TagLists == {<<>>} \cup {<<[Key |-> k, Value |-> "v1"]>> : k \in TagKeys}
              \cup {<<[Key |-> p[1], Value |-> "v1"], [Key |-> p[2], Value |-> "v1"]>> :
                      p \in {q \in TagKeys \X TagKeys : q[1] /= q[2]}}

\* map -> list; the order of a Go map's iteration is not specified.
tagsFromMapCodeCommit(m) ==
    CHOOSE s \in TagLists :
        /\ Len(s) = Cardinality(m)
        /\ {<<s[i].Key, s[i].Value>> : i \in DOMAIN s} = m

\* list -> map; a later entry of the list overwrites an earlier one's key.
tagsToMapCodeCommit(ts) ==
    {<<ts[i].Key, ts[i].Value>> : i \in
        {j \in DOMAIN ts : \A l \in DOMAIN ts : l > j => ts[l].Key /= ts[j].Key}}

(***************************************************************************)
(* schema.ResourceData, as far as the handlers use it: the ID, the prior   *)
(* state (old), the planned values (new: state plus configuration), the    *)
(* values read back (cur: new plus what the handler Set), and the          *)
(* new-resource mark.                                                      *)
(***************************************************************************)
ZeroAttrs ==
    [repository_name |-> "", description |-> "", arn |-> "", repository_id |-> "",
     clone_url_http |-> "", clone_url_ssh |-> "", default_branch |-> "", tags |-> {}]

Get(rd, key) == rd.cur[key]

\* GetOk: the value is set to something other than the type's zero value.
GetOk(rd, key) == rd.cur[key] /= ""

\* HasChange compares the prior state with the planned value.
HasChange(rd, key) == rd.old[key] /= rd.new[key]

IsNewResource(rd) == rd.isNew

Id(rd) == rd.id

SetId(rd, v) == [rd EXCEPT !.id = v]

Set(rd, key, v) == [rd EXCEPT !.cur[key] = v]

\* Set with a *string: a nil pointer stores the zero value.
SetPtr(rd, key, p) == Set(rd, key, IF p = NIL THEN "" ELSE p)

(***************************************************************************)
(* The managed API client.  Each operator is the set of responses a call   *)
(* with the given input may get.                                           *)
(***************************************************************************)
Failed == [res |-> "err", out |-> NoData]
Succeeded == [res |-> "ok", out |-> NoData]
DoesNotExist == [res |-> "notfound", out |-> NoData]

RepositoryMetadata(m, name, desc, branch) ==
    [RepositoryId |-> RepositoryIdTable[m], Arn |-> ArnTable[m],
     CloneUrlHttp |-> CloneUrlHttpTable[m], CloneUrlSsh |-> CloneUrlSshTable[m],
     RepositoryName |-> name, RepositoryDescription |-> desc,
     DefaultBranch |-> branch]

\* The client validates a request before sending it: RepositoryName is
\* required with a minimum length of 1.
CreateRepository(input) ==
    IF input.RepositoryName = "" THEN {Failed}
    ELSE {Failed} \cup
         {[res |-> "ok",
           out |-> [RepositoryMetadata |->
                      RepositoryMetadata(m, input.RepositoryName,
                                         input.RepositoryDescription, NIL)]] :
            m \in MetaIds}

GetRepository(input) ==
    IF input.RepositoryName = "" THEN {Failed}
    ELSE {Failed, DoesNotExist} \cup
         {[res |-> "ok",
           out |-> [RepositoryMetadata |->
                      RepositoryMetadata(m, input.RepositoryName, desc, branch)]] :
            m \in MetaIds, desc \in Descriptions \cup {NIL},
            branch \in BranchNames \cup {NIL}}

ListBranches(input) ==
    {Failed} \cup {[res |-> "ok", out |-> [Branches |-> bs]] :
                     bs \in {<<>>} \cup {<<b>> : b \in BranchNames}}

UpdateDefaultBranch(input) == {Failed, Succeeded}

UpdateRepositoryDescription(input) == {Failed, Succeeded}

DeleteRepository(input) == {Failed, Succeeded}

ListTagsForResource(input) ==
    {Failed} \cup {[res |-> "ok", out |-> [Tags |-> ts]] : ts \in TagLists}

\* The tag-reconciliation helper, by its return value only.
setTagsCodeCommit(rd) == {Failed, Succeeded}

(***************************************************************************)
(* The call log and a handler's return.                                    *)
(***************************************************************************)
Call(api, input, r, rd) ==
    [api |-> api, req |-> input, res |-> r.res, out |-> r.out, d |-> rd]

Return(rd, log, e) == [d |-> rd, calls |-> log, err |-> e]

(***************************************************************************)
(* resourceAwsCodeCommitRepositoryRead                                     *)
(***************************************************************************)
\* Faulty variant: the not-found branch returns nil but keeps the ID.
ReadNotFoundKeepsId(rd, log) == Return(rd, log, FALSE)

\* The "repository does not exist" branch: drop the ID, return nil.
ReadNotFound(rd, log) == Return(SetId(rd, ""), log, FALSE)

\* Faulty variant: default_branch is copied back like the other attributes.
ReadDefaultBranchUnconditional(rd, md) == SetPtr(rd, "default_branch", md.DefaultBranch)

\* The default_branch is written only when one is set locally and the
\* service reports one.
ReadDefaultBranch(rd, md) ==
    IF GetOk(rd, "default_branch") /\ md.DefaultBranch /= NIL
    THEN SetPtr(rd, "default_branch", md.DefaultBranch)
    ELSE rd

ReadMetadata(rd, md) ==
    LET d1 == SetPtr(rd, "repository_id", md.RepositoryId)
        d2 == SetPtr(d1, "arn", md.Arn)
        d3 == SetPtr(d2, "clone_url_http", md.CloneUrlHttp)
        d4 == SetPtr(d3, "clone_url_ssh", md.CloneUrlSsh)
        d5 == SetPtr(d4, "description", md.RepositoryDescription)
        d6 == SetPtr(d5, "repository_name", md.RepositoryName)
    IN  ReadDefaultBranch(d6, md)

ReadTags(rd, log, md) ==
    LET input == [ResourceArn |-> md.Arn]
    IN  {LET log2 == Append(log, Call("ListTagsForResource", input, r, rd))
         IN  IF r.res /= "ok"
             THEN Return(rd, log2, TRUE)
             ELSE Return(Set(rd, "tags", tagsToMapCodeCommit(r.out.Tags)), log2, FALSE)
         : r \in ListTagsForResource(input)}

resourceAwsCodeCommitRepositoryRead(rd, log) ==
    LET input == [RepositoryName |-> Id(rd)]
    IN  UNION {LET log2 == Append(log, Call("GetRepository", input, r, rd))
               IN  IF r.res = "notfound" THEN {ReadNotFound(rd, log2)}
                   ELSE IF r.res /= "ok" THEN {Return(rd, log2, TRUE)}
                   ELSE ReadTags(ReadMetadata(rd, r.out.RepositoryMetadata), log2,
                                 r.out.RepositoryMetadata)
               : r \in GetRepository(input)}

(***************************************************************************)
(* resourceAwsCodeCommitUpdateDescription, ...UpdateDefaultBranch          *)
(***************************************************************************)
\* Faulty variant: a failed update-repository-description is tried a second time.
UpdateDescriptionRetried(rd, log) ==
    LET branchInput == [RepositoryName |-> Id(rd),
                        RepositoryDescription |-> Get(rd, "description")]
    IN  UNION {LET log2 == Append(log, Call("UpdateRepositoryDescription", branchInput, r, rd))
               IN  IF r.res = "ok" THEN {Return(rd, log2, FALSE)}
                   ELSE {Return(rd, Append(log2, Call("UpdateRepositoryDescription",
                                                      branchInput, r2, rd)),
                                r2.res /= "ok")
                         : r2 \in UpdateRepositoryDescription(branchInput)}
               : r \in UpdateRepositoryDescription(branchInput)}

resourceAwsCodeCommitUpdateDescription(rd, log) ==
    LET branchInput == [RepositoryName |-> Id(rd),
                        RepositoryDescription |-> Get(rd, "description")]
    IN  {Return(rd, Append(log, Call("UpdateRepositoryDescription", branchInput, r, rd)),
                r.res /= "ok")
         : r \in UpdateRepositoryDescription(branchInput)}

\* Faulty variant: the error of update-default-branch is dropped.
SetDefaultBranchIgnoresError(rd, log, branches) ==
    IF Len(branches) = 0 THEN {Return(rd, log, FALSE)}
    ELSE LET branchInput == [RepositoryName |-> Id(rd),
                             DefaultBranchName |-> Get(rd, "default_branch")]
         IN  {Return(rd, Append(log, Call("UpdateDefaultBranch", branchInput, r, rd)), FALSE)
              : r \in UpdateDefaultBranch(branchInput)}

\* Faulty variant: update-default-branch is issued whatever list-branches returned.
SetDefaultBranchUnchecked(rd, log, branches) ==
    LET branchInput == [RepositoryName |-> Id(rd),
                        DefaultBranchName |-> Get(rd, "default_branch")]
    IN  {Return(rd, Append(log, Call("UpdateDefaultBranch", branchInput, r, rd)),
                r.res /= "ok")
         : r \in UpdateDefaultBranch(branchInput)}

\* The second half of the default-branch step, given list-branches' output.
SetDefaultBranch(rd, log, branches) ==
    IF Len(branches) = 0 THEN {Return(rd, log, FALSE)}
    ELSE LET branchInput == [RepositoryName |-> Id(rd),
                             DefaultBranchName |-> Get(rd, "default_branch")]
         IN  {Return(rd, Append(log, Call("UpdateDefaultBranch", branchInput, r, rd)),
                     r.res /= "ok")
              : r \in UpdateDefaultBranch(branchInput)}

resourceAwsCodeCommitUpdateDefaultBranch(rd, log) ==
    LET input == [RepositoryName |-> Id(rd)]
    IN  UNION {LET log2 == Append(log, Call("ListBranches", input, r, rd))
               IN  IF r.res /= "ok" THEN {Return(rd, log2, TRUE)}
                   ELSE SetDefaultBranch(rd, log2, r.out.Branches)
               : r \in ListBranches(input)}

(***************************************************************************)
(* resourceAwsCodeCommitRepositoryUpdate                                   *)
(***************************************************************************)
\* Faulty variant: the GetOk guard is missing.
DefaultBranchChangedNoGetOk(rd) == HasChange(rd, "default_branch")

DefaultBranchChanged(rd) == GetOk(rd, "default_branch") /\ HasChange(rd, "default_branch")

DescriptionChanged(rd) == HasChange(rd, "description")

\* Faulty variant: the helper is invoked for a new resource too.
UpdateTagsAlways(rd, log) ==
    {Return(rd, Append(log, Call("setTagsCodeCommit", NoData, r, rd)), r.res /= "ok")
     : r \in setTagsCodeCommit(rd)}

UpdateTags(rd, log) ==
    IF ~IsNewResource(rd)
    THEN {Return(rd, Append(log, Call("setTagsCodeCommit", NoData, r, rd)), r.res /= "ok")
          : r \in setTagsCodeCommit(rd)}
    ELSE {Return(rd, log, FALSE)}

\* From the tags step on: an error of a step is returned as it is, else the
\* handler goes on to Read.
UpdateFromTags(rd, log) ==
    UNION {IF r.err THEN {r} ELSE resourceAwsCodeCommitRepositoryRead(r.d, r.calls)
           : r \in UpdateTags(rd, log)}

UpdateFromDescription(rd, log) ==
    UNION {IF r.err THEN {r} ELSE UpdateFromTags(r.d, r.calls)
           : r \in IF DescriptionChanged(rd)
                    THEN resourceAwsCodeCommitUpdateDescription(rd, log)
                    ELSE {Return(rd, log, FALSE)}}

resourceAwsCodeCommitRepositoryUpdate(rd, log) ==
    UNION {IF r.err THEN {r} ELSE UpdateFromDescription(r.d, r.calls)
           : r \in IF DefaultBranchChanged(rd)
                    THEN resourceAwsCodeCommitUpdateDefaultBranch(rd, log)
                    ELSE {Return(rd, log, FALSE)}}

(***************************************************************************)
(* resourceAwsCodeCommitRepositoryCreate                                   *)
(***************************************************************************)
\* Faulty variant: the ID is not set before the chained Update.
CreateSetComputedNoId(rd, md) ==
    LET d2 == SetPtr(rd, "repository_id", md.RepositoryId)
        d3 == SetPtr(d2, "arn", md.Arn)
        d4 == SetPtr(d3, "clone_url_http", md.CloneUrlHttp)
    IN  SetPtr(d4, "clone_url_ssh", md.CloneUrlSsh)

CreateSetComputed(rd, md) ==
    LET d1 == SetId(rd, Get(rd, "repository_name"))
        d2 == SetPtr(d1, "repository_id", md.RepositoryId)
        d3 == SetPtr(d2, "arn", md.Arn)
        d4 == SetPtr(d3, "clone_url_http", md.CloneUrlHttp)
    IN  SetPtr(d4, "clone_url_ssh", md.CloneUrlSsh)

\* Faulty variant: Create returns after create-repository, it does not chain.
CreateWithoutUpdate(rd, log) ==
    LET input == [RepositoryName |-> Get(rd, "repository_name"),
                  RepositoryDescription |-> Get(rd, "description"),
                  Tags |-> tagsFromMapCodeCommit(Get(rd, "tags"))]
    IN  {LET log2 == Append(log, Call("CreateRepository", input, r, rd))
         IN  IF r.res /= "ok" THEN Return(rd, log2, TRUE)
             ELSE Return(CreateSetComputed(rd, r.out.RepositoryMetadata), log2, FALSE)
         : r \in CreateRepository(input)}

resourceAwsCodeCommitRepositoryCreate(rd, log) ==
    LET input == [RepositoryName |-> Get(rd, "repository_name"),
                  RepositoryDescription |-> Get(rd, "description"),
                  Tags |-> tagsFromMapCodeCommit(Get(rd, "tags"))]
    IN  UNION {LET log2 == Append(log, Call("CreateRepository", input, r, rd))
               IN  IF r.res /= "ok" THEN {Return(rd, log2, TRUE)}
                   ELSE resourceAwsCodeCommitRepositoryUpdate(
                            CreateSetComputed(rd, r.out.RepositoryMetadata), log2)
               : r \in CreateRepository(input)}

(***************************************************************************)
(* resourceAwsCodeCommitRepositoryDelete                                   *)
(***************************************************************************)
\* Faulty variant: a successful Delete drops the ID itself.
DeleteClearsId(rd, log) ==
    LET input == [RepositoryName |-> Id(rd)]
    IN  {Return(IF r.res = "ok" THEN SetId(rd, "") ELSE rd,
                Append(log, Call("DeleteRepository", input, r, rd)), r.res /= "ok")
         : r \in DeleteRepository(input)}

resourceAwsCodeCommitRepositoryDelete(rd, log) ==
    LET input == [RepositoryName |-> Id(rd)]
    IN  {Return(rd, Append(log, Call("DeleteRepository", input, r, rd)), r.res /= "ok")
         : r \in DeleteRepository(input)}

(***************************************************************************)
(* The host framework.  It builds a ResourceData from the state it keeps   *)
(* and the configuration, invokes one handler, and records what the        *)
(* handler left before it invokes the next one.                            *)
(***************************************************************************)
ResourceData(id, old, new, isNew) ==
    [id |-> id, old |-> old, new |-> new, cur |-> new, isNew |-> isNew]

NoResource == ResourceData("", ZeroAttrs, ZeroAttrs, FALSE)

Idle == op = "Idle"

Invoke(name, rd, rs) ==
    /\ Idle
    /\ \E r \in rs :
        /\ op' = name
        /\ d0' = rd
        /\ d' = r.d
        /\ calls' = r.calls
        /\ err' = r.err

Init ==
    /\ op = "Idle"
    /\ d0 = NoResource
    /\ d = NoResource
    /\ calls = <<>>
    /\ err = FALSE

\* Create: a new resource, no prior state, the configuration as planned.
Create ==
    /\ d.id = ""
    /\ \E name \in RepoNames \cup {""}, desc \in Descriptions \cup {""},
          branch \in BranchNames \cup {""}, tags \in TagMaps :
        LET new == [ZeroAttrs EXCEPT !.repository_name = name, !.description = desc,
                                     !.default_branch = branch, !.tags = tags]
            rd == ResourceData("", ZeroAttrs, new, TRUE)
        IN  Invoke("Create", rd, resourceAwsCodeCommitRepositoryCreate(rd, <<>>))

\* Update: the prior state is the recorded one; repository_name is ForceNew
\* and the computed attributes are not configurable.
Update ==
    /\ d.id /= ""
    /\ \E desc \in Descriptions \cup {""}, branch \in BranchNames \cup {""},
          tags \in TagMaps :
        LET new == [d.cur EXCEPT !.description = desc, !.default_branch = branch,
                                 !.tags = tags]
            rd == ResourceData(d.id, d.cur, new, FALSE)
        IN  Invoke("Update", rd, resourceAwsCodeCommitRepositoryUpdate(rd, <<>>))

\* Read (refresh): no planned change.
Read ==
    /\ d.id /= ""
    /\ Invoke("Read", d, resourceAwsCodeCommitRepositoryRead(d, <<>>))

Delete ==
    /\ d.id /= ""
    /\ Invoke("Delete", d, resourceAwsCodeCommitRepositoryDelete(d, <<>>))

\* schema.ImportStatePassthrough: a ResourceData with the given ID only.
Import ==
    /\ d.id = ""
    /\ \E id \in RepoNames :
        LET rd == ResourceData(id, ZeroAttrs, ZeroAttrs, FALSE)
        IN  Invoke("Import", rd, {Return(rd, <<>>, FALSE)})

\* The framework records the outcome: a resource left without an ID, or
\* deleted without error, is no longer in its state.
Record ==
    /\ ~Idle
    /\ op' = "Idle"
    /\ d' = IF d.id = "" \/ (op = "Delete" /\ ~err)
            THEN NoResource
            ELSE ResourceData(d.id, d.cur, d.cur, FALSE)
    /\ d0' = d'
    /\ calls' = <<>>
    /\ err' = FALSE

Next == Create \/ Update \/ Read \/ Delete \/ Import \/ Record

Spec == Init /\ [][Next]_vars

(***************************************************************************)
(* Properties.  Each is a predicate on the record of the last invocation   *)
(* (op, d0, d, calls, err); in an Idle state the log is empty.             *)
(***************************************************************************)
Issued(api) == \E i \in DOMAIN calls : calls[i].api = api

FailedAt(api) == \E i \in DOMAIN calls : calls[i].api = api /\ calls[i].res /= "ok"

NotFoundAt(i) == calls[i].api = "GetRepository" /\ calls[i].res = "notfound"

LastCall == calls[Len(calls)]

Deref(p) == IF p = NIL THEN "" ELSE p

TagPairs(ts) == {<<ts[i].Key, ts[i].Value>> : i \in DOMAIN ts}

ReadApis == {"GetRepository", "ListTagsForResource"}

BranchApis == {"ListBranches", "UpdateDefaultBranch"}

UpdateApis == BranchApis \cup {"UpdateRepositoryDescription"}

RemoteApis == {"CreateRepository", "GetRepository", "DeleteRepository",
               "UpdateRepositoryDescription", "UpdateDefaultBranch", "ListBranches",
               "ListTagsForResource"}

\* C1: when get-repository fails with "repository does not exist", Read
\* returns no error, the ID is the empty string, no further call follows
\* (no list-tags-for-resource), and everything else in the ResourceData is
\* as it was when the call was issued; directly or at the end of Update or
\* Create.
C1_NotFoundClearsIdOnly ==
    \A i \in DOMAIN calls :
        NotFoundAt(i) =>
            /\ op \in {"Read", "Update", "Create"}
            /\ ~err
            /\ d.id = ""
            /\ i = Len(calls)
            /\ ~Issued("ListTagsForResource")
            /\ calls[i].d.id /= ""
            /\ d = [calls[i].d EXCEPT !.id = ""]

C1_Witness ==
    /\ op = "Update"
    /\ Len(calls) > 1
    /\ NotFoundAt(Len(calls))
    /\ d.cur.arn /= ""
    /\ d.id = ""

\* C2: a failed remote call is the last call of its invocation and the
\* handler returns an error; the one exception is get-repository's
\* "repository does not exist", after which Read returns nil.
C2_FailureAborts ==
    \A i \in DOMAIN calls :
        calls[i].res /= "ok" =>
            /\ i = Len(calls)
            /\ calls[i].res = "notfound" => calls[i].api = "GetRepository"
            /\ err <=> calls[i].res = "err"

C2_Witness ==
    /\ op = "Create"
    /\ err
    /\ Len(calls) = 3
    /\ LastCall.api = "UpdateDefaultBranch"
    /\ LastCall.res = "err"

\* The step that follows the default-branch step in Update.
StepAfterDefaultBranch(rd) ==
    IF rd.old.description /= rd.new.description THEN "UpdateRepositoryDescription"
    ELSE IF ~rd.isNew THEN "setTagsCodeCommit"
    ELSE "GetRepository"

\* C3: update-default-branch directly follows a list-branches that
\* succeeded with at least one branch; after a list-branches that returned
\* no branch there is no update-default-branch and the handler goes on with
\* its next step.
C3_DefaultBranchNeedsBranches ==
    \A i \in DOMAIN calls :
        /\ calls[i].api = "UpdateDefaultBranch" =>
            /\ i > 1
            /\ calls[i - 1].api = "ListBranches"
            /\ calls[i - 1].res = "ok"
            /\ Len(calls[i - 1].out.Branches) >= 1
        /\ (calls[i].api = "ListBranches" /\ calls[i].res = "ok"
              /\ Len(calls[i].out.Branches) = 0) =>
            /\ ~Issued("UpdateDefaultBranch")
            /\ i < Len(calls)
            /\ calls[i + 1].api = StepAfterDefaultBranch(d0)

C3_Witness ==
    /\ op = "Update"
    /\ ~err
    /\ \E i \in DOMAIN calls :
        /\ calls[i].api = "ListBranches"
        /\ calls[i].res = "ok"
        /\ Len(calls[i].out.Branches) = 0
        /\ calls[i + 1].api = "setTagsCodeCommit"

\* The invocation ended with a Read that found the repository and returned
\* nil: get-repository and list-tags-for-resource both succeeded.
ReadFound ==
    /\ Len(calls) >= 2
    /\ ~err
    /\ calls[Len(calls) - 1].api = "GetRepository"
    /\ calls[Len(calls) - 1].res = "ok"
    /\ LastCall.api = "ListTagsForResource"
    /\ LastCall.res = "ok"

ReadMd == calls[Len(calls) - 1].out.RepositoryMetadata

\* The ResourceData when Read was entered.
ReadEntry == calls[Len(calls) - 1].d

MirrorsExceptDefaultBranch ==
    /\ d.cur.repository_id = Deref(ReadMd.RepositoryId)
    /\ d.cur.arn = Deref(ReadMd.Arn)
    /\ d.cur.clone_url_http = Deref(ReadMd.CloneUrlHttp)
    /\ d.cur.clone_url_ssh = Deref(ReadMd.CloneUrlSsh)
    /\ d.cur.description = Deref(ReadMd.RepositoryDescription)
    /\ d.cur.repository_name = Deref(ReadMd.RepositoryName)
    /\ d.cur.tags = TagPairs(LastCall.out.Tags)

\* C4 as stated: after a Read that found the repository, every attribute,
\* default_branch included, equals what the service returned (an absent
\* value being the empty string).
C4_ReadMirrorsRemote ==
    ReadFound =>
        /\ MirrorsExceptDefaultBranch
        /\ d.cur.default_branch = Deref(ReadMd.DefaultBranch)

\* C4, amended: after a Read that found the repository, repository_id, arn,
\* the clone URLs, description, repository_name and tags equal what the
\* service returned; default_branch equals the returned one only if a
\* default_branch was set locally when Read started and the service returned
\* one, and is otherwise what it was when Read started.
C4_ReadMirrorsRemoteAmended ==
    ReadFound =>
        /\ MirrorsExceptDefaultBranch
        /\ d.cur.default_branch =
             IF ReadEntry.cur.default_branch /= "" /\ ReadMd.DefaultBranch /= NIL
             THEN ReadMd.DefaultBranch
             ELSE ReadEntry.cur.default_branch

C4_Witness ==
    /\ ReadFound
    /\ op = "Read"
    /\ d0.cur.default_branch = ""
    /\ ReadMd.DefaultBranch = "main"
    /\ d.cur.default_branch = ""
    /\ d0.cur.arn = ""
    /\ d.cur.arn /= ""

\* C5: in a Create, create-repository is the first call and is issued once;
\* anything after it follows its success; the calls of Read (get-repository,
\* then list-tags-for-resource) come after every update call; a Create that
\* returns nil has issued get-repository after create-repository.
C5_CreateChain ==
    op = "Create" =>
        /\ Len(calls) >= 1
        /\ calls[1].api = "CreateRepository"
        /\ \A i \in DOMAIN calls :
            /\ i > 1 => calls[i].api /= "CreateRepository" /\ calls[1].res = "ok"
            /\ calls[i].api \in ReadApis =>
                 \A j \in DOMAIN calls : j > i => calls[j].api \in ReadApis
            /\ calls[i].api = "ListTagsForResource" =>
                 i > 1 /\ calls[i - 1].api = "GetRepository" /\ i = Len(calls)
        /\ ~err => \E i \in DOMAIN calls : i > 1 /\ calls[i].api = "GetRepository"

C5_Witness ==
    /\ op = "Create"
    /\ ~err
    /\ Len(calls) = 6
    /\ calls[2].api = "ListBranches"
    /\ calls[4].api = "UpdateRepositoryDescription"
    /\ calls[5].api = "GetRepository"

\* C6: no remote operation is issued twice in one invocation, so an
\* invocation issues at most as many remote calls as there are operations.
C6_NoRetry ==
    /\ \A i, j \in DOMAIN calls : calls[i].api = calls[j].api => i = j
    /\ Cardinality({i \in DOMAIN calls : calls[i].api \in RemoteApis})
         <= Cardinality(RemoteApis)

C6_Witness ==
    /\ op = "Update"
    /\ Len(calls) = 6
    /\ LastCall.res = "err"
    /\ \E i \in DOMAIN calls : calls[i].api = "UpdateRepositoryDescription"

\* C7: Read issues only get-repository and list-tags-for-resource; Delete
\* issues exactly one call, delete-repository for the repository named by
\* the ID, and leaves the ResourceData as it was given, on success and on
\* failure.
C7_ReadAndDeleteFrame ==
    /\ op = "Read" => \A i \in DOMAIN calls : calls[i].api \in ReadApis
    /\ op = "Delete" =>
        /\ Len(calls) = 1
        /\ calls[1].api = "DeleteRepository"
        /\ calls[1].req.RepositoryName = d0.id
        /\ d0.id /= ""
        /\ d = d0
        /\ err <=> calls[1].res = "err"

C7_Witness ==
    /\ op = "Delete"
    /\ ~err
    /\ d.id /= ""
    /\ d.cur.arn /= ""

\* C8: in a Create, if create-repository fails an error is returned, the ID
\* is empty and nothing was written; if it succeeds the ID on return is the
\* configured repository_name, also when a later step fails, unless the
\* trailing Read got "repository does not exist", the only case in which
\* the ID is empty after a successful create-repository.
C8_CreateKeepsId ==
    op = "Create" =>
        /\ calls[1].res /= "ok" => err /\ d.id = "" /\ d = d0
        /\ calls[1].res = "ok" =>
            /\ d0.cur.repository_name /= ""
            /\ d.id \in {d0.cur.repository_name, ""}
            /\ d.id = "" <=> NotFoundAt(Len(calls))

C8_Witness ==
    /\ op = "Create"
    /\ err
    /\ calls[1].res = "ok"
    /\ LastCall.api = "ListBranches"
    /\ d.id = "repoA"

\* C9: a Create sends the configured tags in the create-repository request
\* and never invokes the tag-reconciliation helper; an Update invokes the
\* helper whenever the default-branch and description steps did not fail,
\* before get-repository, and a failure of the helper ends the Update with
\* an error and without a Read.
C9_TagsPath ==
    /\ op = "Create" =>
        /\ ~Issued("setTagsCodeCommit")
        /\ TagPairs(calls[1].req.Tags) = d0.cur.tags
        /\ Len(calls[1].req.Tags) = Cardinality(d0.cur.tags)
    /\ op = "Update" =>
        /\ (\A a \in UpdateApis : ~FailedAt(a)) => Issued("setTagsCodeCommit")
        /\ \A i \in DOMAIN calls :
            calls[i].api = "setTagsCodeCommit" =>
                /\ \A j \in DOMAIN calls : calls[j].api \in ReadApis => i < j
                /\ calls[i].res = "ok" => Issued("GetRepository")
                /\ calls[i].res /= "ok" => err /\ ~Issued("GetRepository")

C9_Witness ==
    /\ op = "Update"
    /\ err
    /\ d0.old.tags /= d0.new.tags
    /\ LastCall.api = "setTagsCodeCommit"
    /\ Len(calls) = 4

\* C10: in Update (also when chained from Create) the default-branch calls
\* are issued only when default_branch is set to a non-empty value that
\* differs from the prior state; update-repository-description is issued
\* only when description differs from the prior state, and is issued then
\* unless the default-branch step failed; the default-branch step comes
\* first and its failure prevents the description step.
C10_OnlyChangedAttributes ==
    op \in {"Update", "Create"} =>
        LET branchChanged == d0.new.default_branch /= ""
                               /\ d0.old.default_branch /= d0.new.default_branch
            descChanged == d0.old.description /= d0.new.description
            entered == op = "Update" \/ calls[1].res = "ok"
            branchFailed == \E a \in BranchApis : FailedAt(a)
        IN  /\ (\E a \in BranchApis : Issued(a)) => branchChanged
            /\ (entered /\ branchChanged) => Issued("ListBranches")
            /\ Issued("UpdateRepositoryDescription") => descChanged /\ ~branchFailed
            /\ (entered /\ descChanged /\ ~branchFailed) =>
                 Issued("UpdateRepositoryDescription")
            /\ \A i, j \in DOMAIN calls :
                 (calls[i].api \in BranchApis
                    /\ calls[j].api = "UpdateRepositoryDescription") => i < j

C10_Witness ==
    /\ op = "Update"
    /\ d0.old.default_branch = "main"
    /\ d0.new.default_branch = ""
    /\ d0.old.description /= d0.new.description
    /\ Issued("UpdateRepositoryDescription")
    /\ ~Issued("ListBranches")

====
